---------------------------- MODULE Spec2Model ----------------------------
(***************************************************************************)
(* A model of the code-editing agent: the conversation engine              *)
(* (internal/agent/agent.go, Agent.ProcessMessage), the streaming bridge   *)
(* (internal/tui/tui.go, the goroutine of handleStreamStart) and the       *)
(* Bubble Tea update loop (internal/tui/tui.go, Update and its handlers).  *)
(*                                                                         *)
(* Strings are sequences of tokens [tag, t, n]; concatenation is \o.  A    *)
(* text part streamed by the remote model is the one-token string          *)
(* <<[tag |-> "text", t |-> turn, n |-> k]>>: the k-th event of the turn.  *)
(***************************************************************************)
EXTENDS Integers, Sequences, FiniteSets, TLC

(***************************************************************************)
(* Bounds of the model.                                                    *)
(***************************************************************************)
\* turns (user submissions, calls of ProcessMessage) per behaviour
MaxTurns == 2
\* inputs per behaviour (user messages and response chunks streamed by the
\* remote model, together), engine harness
EngineInputs == 4
\* the same, TUI harness
TuiInputs == 3
\* the same, TUI harness with responses of text and thoughts only
TextInputs == 5
\* the same, TUI harness with the keys F3, F4, Ctrl+T and Ctrl+C
KeyInputs == 3

VARIABLES
    harness,        \* "stub": ProcessMessage driven with stub callbacks;
                    \* "tui": driven by the bridge of handleStreamStart
    Conversation,   \* Agent.Conversation
    TokenUsage,     \* Agent.TokenUsage
    task,           \* per turn: the locals of ProcessMessage and of the goroutine
    started,        \* number of calls of ProcessMessage so far
    fuel,           \* inputs (user messages, openings of the model list, resets,
                    \* response chunks) still to come
    messages,       \* model.messages: the transcript
    ui,             \* model.ui: showSpinner, the textarea's focus, the modal flags
    stream,         \* model.stream: the streaming message, cancelFunc, the reply channel
    config,         \* model.config: requireToolConfirmation, enableThinkingMode,
                    \* agent.Model
    prefsFile,      \* the preferences file, ~/.code-agent/config.json
    chans,          \* model.stream's channels between the goroutine and the waiters
    responseChans,  \* the reply channels made so far (make(chan bool, 1))
    waiters,        \* per channel: the waitFor... commands blocked receiving
    inbox,          \* messages the commands have returned, not yet handled by Update
    handled         \* history: the events Update has handled, in order

cfgVars == <<config, prefsFile>>
uiVars == <<messages, ui, stream, cfgVars, chans, responseChans, waiters, inbox, handled>>
vars == <<harness, Conversation, TokenUsage, task, started, fuel, uiVars>>

Tasks == 1..MaxTurns

(***************************************************************************)
(* The tool registry and the inputs the remote model may produce.          *)
(***************************************************************************)
\* a.tools: the names registered
ToolNames == {"list_files"}
\* argument maps a function-call part may carry: {"n": 1}, {"n": "1"}, {"n": 2}
ArgVals == {[ty |-> "number", v |-> 1], [ty |-> "string", v |-> 1],
            [ty |-> "number", v |-> 2]}
NoArgs == [ty |-> "none", v |-> 0]

\* fmt's %v of an argument map: a JSON number 1 and a JSON string "1" both
\* print as map[n:1]
FormatV(args) == args.v
\* json.Marshal of an argument map: {"n":1} and {"n":"1"} differ
JsonMarshal(args) == args

\* callKey := fmt.Sprintf("%s:%v", part.FunctionCall.Name, part.FunctionCall.Args)
callKey(name, args) == <<name, FormatV(args)>>

Tok(tag, t, n) == [tag |-> tag, t |-> t, n |-> n]

\* genai.Part: text, thought or function call
TextPart == [k |-> "text", name |-> "", args |-> NoArgs]
ThoughtPart == [k |-> "thought", name |-> "", args |-> NoArgs]
NoPart == [k |-> "none", name |-> "", args |-> NoArgs]
\* the function calls the remote model may ask for: each registered tool with
\* each argument map, and one call of an unknown tool
CallParts ==
    {[k |-> "call", name |-> nm, args |-> a] : nm \in ToolNames, a \in ArgVals}
        \cup {[k |-> "call", name |-> "no_such_tool", args |-> [ty |-> "number", v |-> 1]]}

\* the chunks the remote model may stream: <<finish reason, part>>.  A part
\* comes with no finish reason; the closing chunk carries STOP or a non-normal
\* reason, with text or without.
ChunkInputs ==
    {<<"", p>> : p \in CallParts \cup {TextPart, ThoughtPart}}
        \cup {<<fr, NoPart>> : fr \in {"STOP", "MAX_TOKENS", "SAFETY"}}
        \cup {<<"MAX_TOKENS", TextPart>>}

\* the chunks the remote model may stream in the TUI harness, where a tool
\* call is shown whatever its name and arguments are
TuiChunkInputs ==
    {<<"", p>> : p \in {[k |-> "call", name |-> "list_files",
                         args |-> [ty |-> "number", v |-> 1]],
                        TextPart, ThoughtPart}}
        \cup {<<"MAX_TOKENS", NoPart>>}

\* agent.Message
Message(type, content, isError) == [Type |-> type, Content |-> content, IsError |-> isError]


\* genai.Content
Content(role, parts, t, rnd) == [Role |-> role, Parts |-> parts, t |-> t, rnd |-> rnd]

\* a tea.Msg: streamChunkMsg, toolMessageMsg, thoughtMessageMsg,
\* streamCompleteMsg (final), toolConfirmationRequestMsg (response: the reply
\* channel), streamStartMsg.  turn and n say which event of which turn it is.
Msg(kind, t, n, content, isError, final, response) ==
    [k |-> kind, turn |-> t, n |-> n, Content |-> content, IsError |-> isError,
     final |-> final, response |-> response]

\* an event handed to a text, tool or thought callback
Event(kind, t, n, m) == Msg(kind, t, n, m.Content, m.IsError, <<>>, 0)

\* the locals of one call of ProcessMessage (and of the goroutine driving it)
InitTask ==
    [pc |-> "idle",               \* position in ProcessMessage / the goroutine
     ctxDone |-> FALSE,           \* the cancel token of the turn is signalled
     gate |-> "nil",              \* confirmationCallback: "nil" or "set"
     nEmit |-> 0,                 \* chunks received so far in the turn
     rnd |-> 0,                   \* iterations of the for loop entered
     processedToolCalls |-> {},
     accumulatedParts |-> <<>>,
     toolResults |-> <<>>,
     accumulatedText |-> <<>>,
     messages |-> <<>>,
     call |-> NoPart,             \* the function call being confirmed or executed
     messageQueue |-> <<>>,       \* the goroutine's messageQueue
     responseChan |-> 0,          \* the confirmation callback's responseChan
     err |-> "none",              \* what ProcessMessage returned as error
     zeroCand |-> 0,              \* history: chunks with zero candidates skipped
     gateLog |-> <<>>,            \* history: what the gate answered, per call
     sent |-> <<>>,               \* history: the kinds of the events sent to the UI
     invoked |-> <<>>]            \* history: calls of a tool's Function

Upd(t, r) == task' = [task EXCEPT ![t] = r]

\* the text, tool and thought callbacks.  Stub harness: the callback returns nil
\* at once.  TUI harness (tui.go 556-587): a cancelled turn returns ctx.Err()
\* without queueing; otherwise queueMessage, then sendQueuedMessages.
InvokeCallback(r, ev) ==
    IF harness = "stub" THEN [r EXCEPT !.pc = "recv"]
    ELSE IF r.ctxDone THEN [r EXCEPT !.pc = "recv"]
    ELSE [r EXCEPT !.messageQueue = Append(@, ev), !.pc = "send"]

\* agent.go 251-268: a finish reason other than STOP
WithFinish(r, fr) ==
    IF fr = "MAX_TOKENS"
    THEN [r EXCEPT !.messages = Append(@, Message("AgentMessage",
               <<Tok("[Response truncated due to length limit]", 0, 0)>>, TRUE))]
    ELSE IF fr = "SAFETY"
    THEN [r EXCEPT !.messages = Append(@, Message("AgentMessage",
               <<Tok("[Response blocked by safety filters]", 0, 0)>>, TRUE))]
    ELSE r

\* the denial path without its continue: the call is executed all the same
DeniedFallsThrough(r, t) ==
    [r EXCEPT !.pc = "exec",
              !.toolResults = Append(@,
                  [Name |-> r.call.name,
                   Response |-> [key |-> "error", val |-> "User denied tool execution"],
                   args |-> r.call.args])]

\* the denial put in front of the results collected so far
DeniedPrepends(r, t) ==
    LET toolMsg == Message("ToolMessage", <<Tok("Tool Call Rejected", t, r.nEmit)>>, TRUE)
        r1 == [r EXCEPT !.messages = Append(@, toolMsg),
                        !.toolResults =
                            <<[Name |-> r.call.name,
                               Response |-> [key |-> "error",
                                             val |-> "User denied tool execution"],
                               args |-> r.call.args]>> \o @]
    IN InvokeCallback(r1, Event("tool", t, r.nEmit, toolMsg))

\* the denial recorded for the model only: no Tool message, no callback
DeniedSilently(r, t) ==
    [r EXCEPT !.pc = "recv",
              !.toolResults = Append(@,
                  [Name |-> r.call.name,
                   Response |-> [key |-> "error", val |-> "User denied tool execution"],
                   args |-> r.call.args])]

\* agent.go 305-332: the gate answered false
Denied(r, t) ==
    LET toolMsg == Message("ToolMessage", <<Tok("Tool Call Rejected", t, r.nEmit)>>, TRUE)
        r1 == [r EXCEPT !.messages = Append(@, toolMsg),
                        !.toolResults = Append(@,
                            [Name |-> r.call.name,
                             Response |-> [key |-> "error", val |-> "User denied tool execution"],
                             args |-> r.call.args])]
    IN InvokeCallback(r1, Event("tool", t, r.nEmit, toolMsg))

\* agent.go 299-333: what ProcessMessage does with the gate's answer
AfterConfirm(r, t, ans) ==
    LET r1 == [r EXCEPT !.gateLog = Append(@,
                   [rnd |-> r.rnd, name |-> r.call.name, args |-> r.call.args, ans |-> ans,
                    ctxDone |-> r.ctxDone])]
    IN CASE ans = "err" -> [r1 EXCEPT !.pc = "ret", !.err = "confirm"]
         [] ans = "no" -> Denied(r1, t)
         [] OTHER -> [r1 EXCEPT !.pc = "exec"]

\* agent.go 293-374: a function-call part
ProcessCall(r, t, p) ==
    LET key == callKey(p.name, p.args) IN
    IF key \in r.processedToolCalls THEN r
    ELSE LET r1 == [r EXCEPT !.processedToolCalls = @ \cup {key}, !.call = p] IN
         IF r.gate = "nil" THEN [r1 EXCEPT !.pc = "exec"]
         ELSE [r1 EXCEPT !.pc = "confirm"]

\* agent.go 272-394: one part of a chunk
ProcessPart(r, t, p) ==
    CASE p.k = "thought" ->
            LET m == Message("ThoughtMessage", <<Tok("Thinking", t, r.nEmit)>>, FALSE)
            IN InvokeCallback([r EXCEPT !.messages = Append(@, m)],
                              Event("thought", t, r.nEmit, m))
      [] p.k = "call" -> ProcessCall(r, t, p)
      [] p.k = "text" ->
            LET txt == <<Tok("text", t, r.nEmit)>>
                m == Message("StreamChunk", txt, FALSE)
            IN InvokeCallback([r EXCEPT !.accumulatedText = @ \o txt,
                                        !.messages = Append(@, m)],
                              Event("chunk", t, r.nEmit, m))
      [] OTHER -> r

\* the part as accumulatedParts keeps it
Kept(p, t, n) ==
    [k |-> p.k, name |-> p.name, args |-> p.args,
     text |-> IF p.k \in {"text", "thought"} THEN <<Tok(p.k, t, n)>> ELSE <<>>]

(***************************************************************************)
(* Agent.ProcessMessage, agent.go 202-427.                                 *)
(***************************************************************************)
\* agent.go 211-218: the user block is appended
PMEntry(t) ==
    /\ ~ui.quitting
    /\ task[t].pc = "entry"
    /\ Conversation' = Append(Conversation,
           Content("user", <<[k |-> "text", name |-> "", args |-> NoArgs,
                             text |-> <<Tok("user", t, 0)>>]>>, t, 0))
    /\ Upd(t, [task[t] EXCEPT !.pc = "loop", !.messages = <<>>])
    /\ UNCHANGED <<harness, TokenUsage, started, fuel, uiVars>>

\* countTokens, agent.go 430-439: what the call may return: the size the
\* service reports for the blocks, or an error (-1).  The request fails with a
\* cancelled context; in the stub harness it may also fail on its own, each
\* such failure being one of the inputs fuel counts.
countTokens(ctxDone, conversation) ==
    IF ctxDone THEN {-1}
    ELSE {Len(conversation)} \cup (IF harness = "stub" /\ fuel > 0 THEN {-1} ELSE {})

\* the failure of a count that the context did not cause uses up one input
CountFuel(ctxDone, n) == IF n < 0 /\ ~ctxDone THEN fuel - 1 ELSE fuel

\* the input count added whatever the call returned, its error value included
AddInputTokensAlways(n) ==
    [TokenUsage EXCEPT !.InputTokens = @ + n, !.TotalTokens = @ + n]

\* agent.go 228-229
AddInputTokens(n) ==
    IF n < 0 THEN TokenUsage
    ELSE [TokenUsage EXCEPT !.InputTokens = @ + n, !.TotalTokens = @ + n]

\* the output tokens added to OutputTokens only
AddOutputTokensOnly(n) ==
    IF n < 0 THEN TokenUsage ELSE [TokenUsage EXCEPT !.OutputTokens = @ + n]

\* agent.go 406-407
AddOutputTokens(n) ==
    IF n < 0 THEN TokenUsage
    ELSE [TokenUsage EXCEPT !.OutputTokens = @ + n, !.TotalTokens = @ + n]

\* agent.go 220-237: the top of the loop
LoopTop(t) ==
    /\ ~ui.quitting
    /\ task[t].pc = "loop"
    /\ IF task[t].ctxDone
       THEN /\ Upd(t, [task[t] EXCEPT !.pc = "ret", !.err = "canceled"])
            /\ UNCHANGED TokenUsage
            /\ UNCHANGED fuel
       ELSE /\ \E n \in countTokens(task[t].ctxDone, Conversation) :
                  /\ TokenUsage' = AddInputTokens(n)
                  /\ fuel' = CountFuel(task[t].ctxDone, n)
            /\ Upd(t, [task[t] EXCEPT !.pc = "recv", !.rnd = @ + 1,
                                      !.accumulatedText = <<>>,
                                      !.accumulatedParts = <<>>,
                                      !.toolResults = <<>>,
                                      !.processedToolCalls = {}])
    /\ UNCHANGED <<harness, Conversation, started, uiVars>>

\* a stream error that takes back the block appended last
StreamErrorRollsBack(t) ==
    /\ ~ui.quitting
    /\ task[t].pc = "recv"
    /\ Upd(t, [task[t] EXCEPT !.pc = "ret", !.err = "stream"])
    /\ Conversation' = SubSeq(Conversation, 1, Len(Conversation) - 1)
    /\ UNCHANGED <<harness, TokenUsage, started, fuel, uiVars>>

\* agent.go 240-243: the stream yields an error
StreamError(t) ==
    /\ ~ui.quitting
    /\ task[t].pc = "recv"
    /\ \E e \in IF task[t].ctxDone THEN {"canceled", "stream"} ELSE {"stream"} :
          Upd(t, [task[t] EXCEPT !.pc = "ret", !.err = e])
    /\ UNCHANGED <<harness, Conversation, TokenUsage, started, fuel, uiVars>>

\* agent.go 245-247: a chunk with zero candidates
StreamNoCandidates(t) ==
    /\ ~ui.quitting
    /\ task[t].pc = "recv"
    /\ fuel > 0
    /\ fuel' = fuel - 1
    /\ Upd(t, [task[t] EXCEPT !.nEmit = @ + 1, !.zeroCand = @ + 1])
    /\ UNCHANGED <<harness, Conversation, TokenUsage, started, uiVars>>

\* agent.go 249-394: a chunk with one candidate
StreamChunk(t, fr, p) ==
    /\ ~ui.quitting
    /\ task[t].pc = "recv"
    /\ fuel > 0
    /\ fuel' = fuel - 1
    /\ LET r0 == [task[t] EXCEPT !.nEmit = @ + 1]
           r1 == WithFinish(r0, fr)
           r2 == IF p.k = "none" THEN r1
                 ELSE [r1 EXCEPT !.accumulatedParts = Append(@, Kept(p, t, r0.nEmit))]
       IN Upd(t, ProcessPart(r2, t, p))
    /\ UNCHANGED <<harness, Conversation, TokenUsage, started, uiVars>>

\* the range of the stream ends
StreamEnd(t) ==
    /\ ~ui.quitting
    /\ task[t].pc = "recv"
    /\ Upd(t, [task[t] EXCEPT !.pc = "end"])
    /\ UNCHANGED <<harness, Conversation, TokenUsage, started, fuel, uiVars>>

\* a tool failure returned from ProcessMessage as its error
ExecToolFatal(t, outcome) ==
    /\ task[t].pc = "exec"
    /\ LET r == task[t]
           failed == r.call.name \notin ToolNames \/ outcome = "fail"
       IN IF failed
          THEN Upd(t, [r EXCEPT !.pc = "ret", !.err = "tool"])
          ELSE Upd(t, [r EXCEPT !.pc = "recv",
                         !.invoked = Append(@, [rnd |-> r.rnd, name |-> r.call.name,
                                                args |-> JsonMarshal(r.call.args)]),
                         !.messages = Append(@, Message("ToolMessage",
                                          <<Tok("Tool Call Result", t, r.nEmit)>>, FALSE)),
                         !.toolResults = Append(@,
                             [Name |-> r.call.name,
                              Response |-> [key |-> "result", val |-> "ok"],
                              args |-> r.call.args])])
    /\ UNCHANGED <<harness, Conversation, TokenUsage, started, fuel, uiVars>>

\* agent.go 335-373 and executeTool, 441-470
ExecTool(t, outcome) ==
    /\ ~ui.quitting
    /\ task[t].pc = "exec"
    /\ LET r == task[t]
           found == r.call.name \in ToolNames
           failed == ~found \/ outcome = "fail"
           toolMsg == Message("ToolMessage",
                        <<Tok(IF failed THEN "Tool Call Error" ELSE "Tool Call Result",
                              t, r.nEmit)>>, failed)
           r1 == [r EXCEPT
                    !.invoked = IF found
                                THEN Append(@, [rnd |-> r.rnd, name |-> r.call.name,
                                                args |-> JsonMarshal(r.call.args)])
                                ELSE @,
                    !.messages = Append(@, toolMsg),
                    !.toolResults = Append(@,
                        [Name |-> r.call.name,
                         Response |-> [key |-> "result",
                                       val |-> IF failed THEN "Error" ELSE "ok"],
                         args |-> r.call.args])]
       IN Upd(t, InvokeCallback(r1, Event("tool", t, r.nEmit, toolMsg)))
    /\ UNCHANGED <<harness, Conversation, TokenUsage, started, fuel, uiVars>>

\* the end of a round that never appends the tool results: the loop ends
\* after the model block
EndRoundStops(t) ==
    /\ ~ui.quitting
    /\ task[t].pc = "end"
    /\ Conversation' = Append(Conversation,
           Content("model", task[t].accumulatedParts, t, task[t].rnd))
    /\ Upd(t, [task[t] EXCEPT !.pc = "ret", !.err = "none",
                 !.messages = IF task[t].accumulatedText # <<>>
                              THEN Append(@, Message("AgentMessage",
                                       task[t].accumulatedText, FALSE))
                              ELSE @])
    /\ \E n \in countTokens(task[t].ctxDone,
                 <<Content("model", task[t].accumulatedParts, t, task[t].rnd)>>) :
          /\ TokenUsage' = AddOutputTokens(n)
          /\ fuel' = CountFuel(task[t].ctxDone, n)
    /\ UNCHANGED <<harness, started, uiVars>>

\* agent.go 397-426: after the stream
EndRound(t) ==
    /\ ~ui.quitting
    /\ task[t].pc = "end"
    /\ LET r == task[t]
           aiContent == Content("model", r.accumulatedParts, t, r.rnd)
           toolContent == Content("user", r.toolResults, t, r.rnd)
       IN IF Len(r.toolResults) > 0
          THEN /\ Conversation' = Conversation \o <<aiContent, toolContent>>
               /\ Upd(t, [r EXCEPT !.pc = "loop"])
          ELSE /\ Conversation' = Append(Conversation, aiContent)
               /\ Upd(t, [r EXCEPT !.pc = "ret", !.err = "none",
                            !.messages = IF r.accumulatedText # <<>>
                                         THEN Append(@, Message("AgentMessage",
                                                  r.accumulatedText, FALSE))
                                         ELSE @])
    /\ \E n \in countTokens(task[t].ctxDone,
                 <<Content("model", task[t].accumulatedParts, t, task[t].rnd)>>) :
          /\ TokenUsage' = AddOutputTokens(n)
          /\ fuel' = CountFuel(task[t].ctxDone, n)
    /\ UNCHANGED <<harness, started, uiVars>>

\* the steps of ProcessMessage
Engine(t) ==
    \/ PMEntry(t)
    \/ LoopTop(t)
    \/ StreamError(t)
    \/ StreamNoCandidates(t)
    \/ \E c \in IF harness = "stub" THEN ChunkInputs ELSE TuiChunkInputs :
          StreamChunk(t, c[1], c[2])
    \/ StreamEnd(t)
    \/ \E o \in {"ok", "fail"} : ExecTool(t, o)
    \/ EndRound(t)

(***************************************************************************)
(* The TUI: internal/tui/tui.go.                                           *)
(***************************************************************************)
\* number of entries of availableModels (tui.go 123-135), scaled to the model
NumModels == 2
\* capacity of streamChunkChan (100 in tui.go 168), scaled to the model
ChunkCap == 1
\* capacity of toolMessageChan (10 in tui.go 169), scaled to the model
ToolCap == 1
\* capacity of thoughtMessageChan (10 in tui.go 170), scaled to the model
ThoughtCap == 1
\* capacity of streamCompleteChan
CompleteCap == 1
\* capacity of toolConfirmationChan
ConfirmCap == 1
\* capacity of a reply channel
ResponseCap == 1

Kinds == {"chunk", "tool", "thought", "complete", "confirm"}
Cap(k) ==
    CASE k = "chunk" -> ChunkCap
      [] k = "tool" -> ToolCap
      [] k = "thought" -> ThoughtCap
      [] k = "complete" -> CompleteCap
      [] OTHER -> ConfirmCap

\* tui.message
message(mType, content, isCollapsed, isError, isStreaming) ==
    [mType |-> mType, content |-> content, isCollapsed |-> isCollapsed,
     isError |-> isError, isStreaming |-> isStreaming]
\* a nil *message
nil == message("nil", <<>>, FALSE, FALSE, FALSE)
\* the separator handleStreamChunk adds: "\n\n"
Separator == Tok("\n\n", 0, 0)

(***************************************************************************)
(* internal/config/preferences.go.                                         *)
(***************************************************************************)
\* SelectedModel == "": no model selected
NoModel == -1
\* config.UserPreferences, the selected model as its index in availableModels
UserPreferences(m, r, e) ==
    [SelectedModel |-> m, RequireToolConfirmation |-> r, EnableThinkingMode |-> e]
PrefsValues ==
    {UserPreferences(m, r, e) : m \in {NoModel} \cup (0..(NumModels - 1)),
                                r \in BOOLEAN, e \in BOOLEAN}

\* no file at the preferences path
NoFile ==
    [exists |-> FALSE, hasSelectedModel |-> FALSE, selected_model |-> NoModel,
     require_tool_confirmation |-> FALSE, enable_thinking_mode |-> FALSE]
\* json.MarshalIndent of a UserPreferences: selected_model has omitempty, so
\* the key is left out when the string is empty
MarshalIndent(prefs) ==
    [exists |-> TRUE,
     hasSelectedModel |-> prefs.SelectedModel # NoModel,
     selected_model |-> prefs.SelectedModel,
     require_tool_confirmation |-> prefs.RequireToolConfirmation,
     enable_thinking_mode |-> prefs.EnableThinkingMode]
\* json.Unmarshal into a zero UserPreferences: a key left out leaves the zero
\* value
Unmarshal(data) ==
    UserPreferences(IF data.hasSelectedModel THEN data.selected_model ELSE NoModel,
                    data.require_tool_confirmation, data.enable_thinking_mode)

\* preferences.go 28-60
LoadPreferences(file) ==
    IF ~file.exists THEN UserPreferences(NoModel, TRUE, FALSE)
    ELSE LET prefs == Unmarshal(file) IN
         IF ~prefs.RequireToolConfirmation /\ prefs.SelectedModel = NoModel
                /\ ~prefs.EnableThinkingMode
         THEN [prefs EXCEPT !.RequireToolConfirmation = TRUE]
         ELSE prefs

\* preferences.go 62-87: the file after SavePreferences, written: WriteFile
\* (and MkdirAll before it) succeeded
SavePreferences(prefs, written) == IF written THEN MarshalIndent(prefs) ELSE prefsFile

\* tui.go 95-189.  ui.quitting: Update has returned tea.Quit; Run returns
\* (tui.go 867-872) and the program ends, with its goroutines, so that no step
\* of the program is taken once it is set.
InitialModel(file) ==
    /\ prefsFile = file
    /\ messages = <<>>
    /\ ui = [showSpinner |-> FALSE, focused |-> TRUE, toolConfirmationMode |-> FALSE,
             toolConfirmationName |-> 0, modelSelectionMode |-> FALSE,
             selectedModelIndex |-> 0, quitting |-> FALSE]
    /\ stream = [streamingMsg |-> nil, streamingMsgIndex |-> -1,
                 streamingWasInterrupted |-> FALSE, cancelFunc |-> 0,
                 confirmationResponseChan |-> 1]
    /\ config = [requireToolConfirmation |-> LoadPreferences(file).RequireToolConfirmation,
                 enableThinkingMode |-> LoadPreferences(file).EnableThinkingMode,
                 agentModel |-> 0]
    /\ chans = [k \in Kinds |-> <<>>]
    /\ responseChans = <<<<>>>>
    /\ waiters = [k \in Kinds |-> 0]
    /\ inbox = {}
    /\ handled = <<>>

engineVars == <<harness, Conversation, TokenUsage, task, started, fuel>>

\* context.CancelFunc of turn c (0: nil)
Cancelled(c) == IF c = 0 THEN task ELSE [task EXCEPT ![c].ctxDone = TRUE]

\* a tea.Batch of waitFor... commands is started
Arm(ks) == [k \in Kinds |-> IF k \in ks THEN waiters[k] + 1 ELSE waiters[k]]

\* history: what Update has handled, in order
Handled(e) == handled' = Append(handled, [k |-> e.k, turn |-> e.turn, n |-> e.n])

\* tui.go 448-464, Enter in normal mode with text in the focused textarea
handleUserInput ==
    /\ ~ui.quitting
    /\ harness # "stub"
    /\ ~ui.toolConfirmationMode /\ ~ui.modelSelectionMode
    /\ ui.focused
    /\ started < MaxTurns
    /\ fuel > 0
    /\ fuel' = fuel - 1
    /\ started' = started + 1
    /\ messages' = Append(messages,
           message("userMessage", <<Tok("user", started + 1, 0)>>, FALSE, FALSE, FALSE))
    /\ ui' = [ui EXCEPT !.showSpinner = TRUE, !.focused = FALSE]
    /\ stream' = [stream EXCEPT !.streamingWasInterrupted = FALSE]
    /\ inbox' = inbox \cup {Msg("start", started + 1, 0, <<>>, FALSE, <<>>, 0)}
    /\ UNCHANGED <<harness, Conversation, TokenUsage, task, cfgVars, chans, responseChans,
                   waiters, handled>>

\* tui.go 298-306, Esc in normal mode while streaming
handleKeyEsc ==
    /\ ~ui.quitting
    /\ harness # "stub"
    /\ ~ui.toolConfirmationMode /\ ~ui.modelSelectionMode
    /\ ui.showSpinner /\ stream.cancelFunc # 0
    /\ task' = Cancelled(stream.cancelFunc)
    /\ ui' = [ui EXCEPT !.showSpinner = FALSE, !.focused = TRUE]
    /\ UNCHANGED <<harness, Conversation, TokenUsage, started, fuel, messages, stream, cfgVars,
                   chans, responseChans, waiters, inbox, handled>>

\* msg.String() of the keys pressed while the overlay is shown
Keys == {"y", "Y", "n", "N", "esc", "enter", "f2", "f3", "f4", "ctrl+c", "ctrl+t"}

\* the answer sent with the overlay left open
handleToolConfirmationKeyStays(key) ==
    /\ ~ui.quitting
    /\ harness \in {"tui", "keys"}
    /\ ui.toolConfirmationMode
    /\ IF key \in {"y", "Y", "n", "N", "esc"}
       THEN /\ Len(responseChans[stream.confirmationResponseChan]) < ResponseCap
            /\ responseChans' = [responseChans EXCEPT
                   ![stream.confirmationResponseChan] = Append(@, key \in {"y", "Y"})]
            /\ Handled([k |-> "answer", turn |-> ui.toolConfirmationName,
                        n |-> stream.confirmationResponseChan])
            /\ UNCHANGED <<engineVars, messages, ui, stream, cfgVars, chans, waiters, inbox>>
       ELSE UNCHANGED vars

\* the overlay without its priority: a key that is no answer is handled as in
\* normal mode, F2 opening the model list and Ctrl+C cancelling and quitting
handleToolConfirmationKeyFallsThrough(key) ==
    /\ ~ui.quitting
    /\ harness \in {"tui", "keys"}
    /\ ui.toolConfirmationMode
    /\ CASE key \in {"y", "Y", "n", "N", "esc"} ->
               /\ Len(responseChans[stream.confirmationResponseChan]) < ResponseCap
               /\ responseChans' = [responseChans EXCEPT
                      ![stream.confirmationResponseChan] = Append(@, key \in {"y", "Y"})]
               /\ ui' = [ui EXCEPT !.toolConfirmationMode = FALSE, !.focused = TRUE]
               /\ Handled([k |-> "answer", turn |-> ui.toolConfirmationName,
                           n |-> stream.confirmationResponseChan])
               /\ UNCHANGED <<engineVars, messages, stream, cfgVars, chans, waiters, inbox>>
         [] key = "f2" ->
               /\ ui' = [ui EXCEPT !.modelSelectionMode = TRUE, !.focused = FALSE]
               /\ UNCHANGED <<engineVars, messages, stream, cfgVars, chans, responseChans,
                              waiters, inbox, handled>>
         [] key = "ctrl+c" ->
               /\ task' = IF stream.cancelFunc = 0 THEN task
                          ELSE [task EXCEPT ![stream.cancelFunc].ctxDone = TRUE]
               /\ ui' = [ui EXCEPT !.quitting = TRUE]
               /\ UNCHANGED <<harness, Conversation, TokenUsage, started, fuel, messages,
                              stream, cfgVars, chans, responseChans, waiters, inbox, handled>>
         [] OTHER -> UNCHANGED vars

\* tui.go 323-337: y, Y (approve) and n, N, esc (deny) in tool confirmation
\* mode; no other key has a case.  The send blocks Update while the channel
\* is full.  handled notes the answer with the turn of the request and the
\* channel it went to.
handleToolConfirmationKey(key) ==
    /\ ~ui.quitting
    /\ harness \in {"tui", "keys"}
    /\ ui.toolConfirmationMode
    /\ IF key \in {"y", "Y", "n", "N", "esc"}
       THEN /\ Len(responseChans[stream.confirmationResponseChan]) < ResponseCap
            /\ responseChans' = [responseChans EXCEPT
                   ![stream.confirmationResponseChan] = Append(@, key \in {"y", "Y"})]
            /\ ui' = [ui EXCEPT !.toolConfirmationMode = FALSE, !.focused = TRUE]
            /\ Handled([k |-> "answer", turn |-> ui.toolConfirmationName,
                        n |-> stream.confirmationResponseChan])
            /\ UNCHANGED <<engineVars, messages, stream, cfgVars, chans, waiters, inbox>>
       ELSE UNCHANGED vars

\* tui.go 363-371, F2 in normal mode
toggleModelSelection ==
    /\ ~ui.quitting
    /\ harness \in {"tui", "keys"}
    /\ ~ui.toolConfirmationMode /\ ~ui.modelSelectionMode
    /\ fuel > 0
    /\ fuel' = fuel - 1
    /\ ui' = [ui EXCEPT !.modelSelectionMode = ~@, !.focused = ui.modelSelectionMode]
    /\ UNCHANGED <<harness, Conversation, TokenUsage, task, started, messages, stream,
                   cfgVars, chans, responseChans, waiters, inbox, handled>>

\* tui.go 467-495, Enter in model selection mode; saved: SavePreferences succeeds
selectModel(saved) ==
    /\ config' = [config EXCEPT !.agentModel = ui.selectedModelIndex]
    /\ prefsFile' = SavePreferences(UserPreferences(ui.selectedModelIndex, FALSE, FALSE),
                                    saved)
    /\ ui' = [ui EXCEPT !.modelSelectionMode = FALSE, !.focused = TRUE]
    /\ messages' = Append(messages,
           message("agentMessage", <<Tok("Model switched to", 0, ui.selectedModelIndex)>>,
                   FALSE, ~saved, FALSE))
    /\ UNCHANGED <<engineVars, stream, chans, responseChans, waiters, inbox, handled>>

\* tui.go 340-360: esc, up, down and enter in model selection mode
handleModelSelectionKey(key) ==
    /\ ~ui.quitting
    /\ harness \in {"tui", "keys"}
    /\ ~ui.toolConfirmationMode /\ ui.modelSelectionMode
    /\ CASE key = "esc" ->
               /\ ui' = [ui EXCEPT !.modelSelectionMode = FALSE, !.focused = TRUE]
               /\ UNCHANGED <<engineVars, messages, stream, cfgVars, chans, responseChans,
                              waiters, inbox, handled>>
         [] key = "up" ->
               /\ ui.selectedModelIndex > 0
               /\ ui' = [ui EXCEPT !.selectedModelIndex = @ - 1]
               /\ UNCHANGED <<engineVars, messages, stream, cfgVars, chans, responseChans,
                              waiters, inbox, handled>>
         [] key = "down" ->
               /\ ui.selectedModelIndex < NumModels - 1
               /\ ui' = [ui EXCEPT !.selectedModelIndex = @ + 1]
               /\ UNCHANGED <<engineVars, messages, stream, cfgVars, chans, responseChans,
                              waiters, inbox, handled>>
         [] OTHER -> \E saved \in BOOLEAN : selectModel(saved)

\* tui.go 374-397, F3 in normal mode; written: SavePreferences writes the file
toggleToolConfirmation ==
    /\ ~ui.quitting
    /\ harness = "keys"
    /\ ~ui.toolConfirmationMode /\ ~ui.modelSelectionMode
    /\ fuel > 0
    /\ fuel' = fuel - 1
    /\ config' = [config EXCEPT !.requireToolConfirmation = ~@]
    /\ \E written \in BOOLEAN :
           prefsFile' = SavePreferences(
               [LoadPreferences(prefsFile) EXCEPT
                   !.RequireToolConfirmation = ~config.requireToolConfirmation], written)
    /\ messages' = Append(messages,
           message("agentMessage",
                   <<Tok("Tool confirmation", 0,
                         IF config.requireToolConfirmation THEN 0 ELSE 1)>>,
                   FALSE, FALSE, FALSE))
    /\ UNCHANGED <<harness, Conversation, TokenUsage, task, started, ui, stream, chans,
                   responseChans, waiters, inbox, handled>>

\* tui.go 400-425, F4 in normal mode
toggleThinkingMode ==
    /\ ~ui.quitting
    /\ harness = "keys"
    /\ ~ui.toolConfirmationMode /\ ~ui.modelSelectionMode
    /\ fuel > 0
    /\ fuel' = fuel - 1
    /\ config' = [config EXCEPT !.enableThinkingMode = ~@]
    /\ \E written \in BOOLEAN :
           prefsFile' = SavePreferences(
               [LoadPreferences(prefsFile) EXCEPT
                   !.EnableThinkingMode = ~config.enableThinkingMode], written)
    /\ messages' = Append(messages,
           message("agentMessage",
                   <<Tok("Thinking mode", 0, IF config.enableThinkingMode THEN 0 ELSE 1)>>,
                   FALSE, FALSE, FALSE))
    /\ UNCHANGED <<harness, Conversation, TokenUsage, task, started, ui, stream, chans,
                   responseChans, waiters, inbox, handled>>

\* the entries Ctrl+T acts on
IsFoldable(m) == m.mType \in {"toolMessage", "thoughtMessage"}

\* each Tool and Thought entry toggled on its own
Toggled(msgs) ==
    [i \in DOMAIN msgs |->
        IF IsFoldable(msgs[i]) THEN [msgs[i] EXCEPT !.isCollapsed = ~@] ELSE msgs[i]]

\* tui.go 429-442: anyExpanded, then every Tool and Thought entry is set to it
Unified(msgs) ==
    LET anyExpanded == \E i \in DOMAIN msgs : IsFoldable(msgs[i]) /\ ~msgs[i].isCollapsed
    IN  [i \in DOMAIN msgs |->
            IF IsFoldable(msgs[i]) THEN [msgs[i] EXCEPT !.isCollapsed = anyExpanded]
            ELSE msgs[i]]

\* tui.go 428-445, Ctrl+T in normal mode
toggleCollapsedMessages ==
    /\ ~ui.quitting
    /\ harness = "keys"
    /\ ~ui.toolConfirmationMode /\ ~ui.modelSelectionMode
    /\ messages' = Unified(messages)
    /\ UNCHANGED <<engineVars, ui, stream, cfgVars, chans, responseChans, waiters, inbox,
                   handled>>

\* tui.go 292-297, Ctrl+C in normal mode: the turn is cancelled and the program
\* quits
handleKeyCtrlC ==
    /\ ~ui.quitting
    /\ harness = "keys"
    /\ ~ui.toolConfirmationMode /\ ~ui.modelSelectionMode
    /\ task' = Cancelled(stream.cancelFunc)
    /\ ui' = [ui EXCEPT !.quitting = TRUE]
    /\ UNCHANGED <<harness, Conversation, TokenUsage, started, fuel, messages, stream, cfgVars,
                   chans, responseChans, waiters, inbox, handled>>

\* tui.go 498-510 and 642-650: the goroutine is started, the commands batched
handleStreamStart(e) ==
    /\ ~ui.quitting
    /\ e \in inbox /\ e.k = "start"
    /\ inbox' = inbox \ {e}
    /\ task' = [Cancelled(stream.cancelFunc) EXCEPT
                   ![e.turn] = [InitTask EXCEPT !.pc = "entry", !.gate = "set"]]
    /\ stream' = [stream EXCEPT !.cancelFunc = e.turn]
    /\ waiters' = Arm(Kinds)
    /\ UNCHANGED <<harness, Conversation, TokenUsage, started, fuel, messages, ui, cfgVars, chans,
                   responseChans, handled>>

\* the insertion without the update of the index
InsertKeepsIndex(new) ==
    /\ messages' = IF stream.streamingMsgIndex # -1
                   THEN SubSeq(messages, 1, stream.streamingMsgIndex) \o <<new>>
                            \o SubSeq(messages, stream.streamingMsgIndex + 1, Len(messages))
                   ELSE Append(messages, new)
    /\ stream' = [stream EXCEPT
           !.streamingWasInterrupted =
               IF stream.streamingMsg # nil /\ stream.streamingMsg.content # <<>>
               THEN TRUE ELSE @]

\* tui.go 667-676 and 705-714: the entry goes before the streaming message
InsertBeforeStreaming(new) ==
    IF stream.streamingMsgIndex # -1
    THEN /\ messages' = SubSeq(messages, 1, stream.streamingMsgIndex) \o <<new>>
                          \o SubSeq(messages, stream.streamingMsgIndex + 1, Len(messages))
         /\ stream' = [stream EXCEPT
                !.streamingMsgIndex = @ + 1,
                !.streamingWasInterrupted =
                    IF stream.streamingMsg # nil /\ stream.streamingMsg.content # <<>>
                    THEN TRUE ELSE @]
    ELSE /\ messages' = Append(messages, new)
         /\ stream' = [stream EXCEPT
                !.streamingWasInterrupted =
                    IF stream.streamingMsg # nil /\ stream.streamingMsg.content # <<>>
                    THEN TRUE ELSE @]

\* tui.go 653-688
handleToolMessage(e) ==
    /\ ~ui.quitting
    /\ e \in inbox /\ e.k = "tool"
    /\ inbox' = inbox \ {e}
    /\ InsertBeforeStreaming(message("toolMessage", e.Content, TRUE, e.IsError, FALSE))
    /\ waiters' = Arm({"tool"})
    /\ Handled(e)
    /\ UNCHANGED <<engineVars, ui, cfgVars, chans, responseChans>>

\* tui.go 691-725
handleThoughtMessage(e) ==
    /\ ~ui.quitting
    /\ e \in inbox /\ e.k = "thought"
    /\ inbox' = inbox \ {e}
    /\ InsertBeforeStreaming(message("thoughtMessage", e.Content, TRUE, e.IsError, FALSE))
    /\ waiters' = Arm({"thought"})
    /\ Handled(e)
    /\ UNCHANGED <<engineVars, ui, cfgVars, chans, responseChans>>

\* tui.go 728-760
handleStreamChunk(e) ==
    /\ ~ui.quitting
    /\ e \in inbox /\ e.k = "chunk"
    /\ inbox' = inbox \ {e}
    /\ LET fresh == stream.streamingMsg = nil
           msg0 == IF fresh THEN message("agentMessage", <<>>, FALSE, FALSE, TRUE)
                   ELSE stream.streamingMsg
           msgs0 == IF fresh THEN Append(messages, msg0) ELSE messages
           idx == IF fresh THEN Len(msgs0) - 1 ELSE stream.streamingMsgIndex
           msg1 == [msg0 EXCEPT !.content =
                       (IF stream.streamingWasInterrupted THEN @ \o <<Separator>> ELSE @)
                           \o e.Content]
       IN /\ stream' = [stream EXCEPT !.streamingMsg = msg1, !.streamingMsgIndex = idx,
                                      !.streamingWasInterrupted = FALSE]
          /\ messages' = IF idx < Len(msgs0) THEN [msgs0 EXCEPT ![idx + 1] = msg1]
                         ELSE msgs0
    /\ waiters' = Arm({"chunk"})
    /\ Handled(e)
    /\ UNCHANGED <<engineVars, ui, cfgVars, chans, responseChans>>

\* every agent message of the payload shown, error-flagged or not
FinalAgents(final) ==
    LET IsAgent(m) == m.Type = "AgentMessage"
        ags == SelectSeq(final, IsAgent)
    IN [k \in DOMAIN ags |-> message("agentMessage", ags[k].Content, FALSE,
                                       ags[k].IsError, FALSE)]

\* tui.go 780-800: the error-flagged agent messages of the payload
RECURSIVE FinalErrors(_)
FinalErrors(final) ==
    IF final = <<>> THEN <<>>
    ELSE (IF Head(final).Type = "AgentMessage" /\ Head(final).IsError
          THEN <<message("agentMessage", Head(final).Content, FALSE, TRUE, FALSE)>>
          ELSE <<>>) \o FinalErrors(Tail(final))

\* tui.go 778-804: what handleStreamComplete makes of the transcript
FinalizeTranscript(msgs, final) == msgs \o FinalErrors(final)

\* tui.go 763-805
handleStreamComplete(e) ==
    /\ ~ui.quitting
    /\ e \in inbox /\ e.k = "complete"
    /\ inbox' = inbox \ {e}
    /\ ui' = [ui EXCEPT !.showSpinner = FALSE, !.focused = TRUE]
    /\ stream' = [stream EXCEPT !.streamingMsg = nil, !.streamingMsgIndex = -1,
                                !.streamingWasInterrupted = FALSE]
    /\ messages' = FinalizeTranscript(messages, e.final)
    /\ Handled(e)
    /\ UNCHANGED <<engineVars, cfgVars, chans, responseChans, waiters>>

\* tui.go 808-817
handleToolConfirmationRequest(e) ==
    /\ ~ui.quitting
    /\ e \in inbox /\ e.k = "confirm"
    /\ inbox' = inbox \ {e}
    /\ ui' = [ui EXCEPT !.toolConfirmationMode = TRUE, !.focused = FALSE,
                        !.toolConfirmationName = e.turn]
    /\ stream' = [stream EXCEPT !.confirmationResponseChan = e.response]
    /\ waiters' = Arm({"confirm"})
    /\ UNCHANGED <<engineVars, messages, cfgVars, chans, responseChans, handled>>

\* tui.go 881-914: a waitFor... command receives from its channel and returns
\* the message; the runtime passes it to Update when its turn comes
waitFor(k) ==
    /\ ~ui.quitting
    /\ waiters[k] > 0
    /\ chans[k] # <<>>
    /\ waiters' = [waiters EXCEPT ![k] = @ - 1]
    /\ chans' = [chans EXCEPT ![k] = Tail(@)]
    /\ inbox' = inbox \cup {Head(chans[k])}
    /\ UNCHANGED <<engineVars, messages, ui, stream, cfgVars, responseChans, handled>>

(***************************************************************************)
(* The goroutine of handleStreamStart, tui.go 509-640.                     *)
(***************************************************************************)
\* tui.go 523-551: sendQueuedMessages sends the queued message, or returns
\* when the turn is cancelled
sendQueuedMessages(t) ==
    /\ ~ui.quitting
    /\ task[t].pc = "send"
    /\ LET e == Head(task[t].messageQueue) IN
          \/ /\ Len(chans[e.k]) < Cap(e.k)
             /\ chans' = [chans EXCEPT ![e.k] = Append(@, e)]
             /\ Upd(t, [task[t] EXCEPT !.messageQueue = Tail(@), !.pc = "recv",
                                       !.sent = Append(@, e.k)])
          \/ /\ task[t].ctxDone
             /\ Upd(t, [task[t] EXCEPT !.pc = "recv"])
             /\ UNCHANGED chans
    /\ UNCHANGED <<harness, Conversation, TokenUsage, started, fuel, messages, ui, stream, cfgVars,
                   responseChans, waiters, inbox, handled>>

\* the confirmation callback without the test of the flag: it always asks
confirmationCallbackAlwaysAsks(t) ==
    /\ ~ui.quitting
    /\ harness \in {"tui", "keys"}
    /\ task[t].pc = "confirm"
    /\ responseChans' = Append(responseChans, <<>>)
    /\ Upd(t, [task[t] EXCEPT !.pc = "confSend", !.responseChan = Len(responseChans) + 1])
    /\ UNCHANGED <<harness, Conversation, TokenUsage, started, fuel, messages, ui, stream, cfgVars,
                   chans, waiters, inbox, handled>>

\* tui.go 589-609: the confirmation callback, up to the request being sent
confirmationCallback(t) ==
    /\ ~ui.quitting
    /\ harness \in {"tui", "keys"}
    /\ task[t].pc = "confirm"
    /\ IF ~config.requireToolConfirmation
       THEN /\ Upd(t, AfterConfirm(task[t], t, "yes"))
            /\ UNCHANGED <<chans, responseChans>>
       ELSE /\ responseChans' = Append(responseChans, <<>>)
            /\ Upd(t, [task[t] EXCEPT !.pc = "confSend",
                                      !.responseChan = Len(responseChans) + 1])
            /\ UNCHANGED chans
    /\ UNCHANGED <<harness, Conversation, TokenUsage, started, fuel, messages, ui, stream, cfgVars,
                   waiters, inbox, handled>>

\* tui.go 600-606: the request is sent to the UI
confirmationSend(t) ==
    /\ ~ui.quitting
    /\ task[t].pc = "confSend"
    /\ Len(chans["confirm"]) < ConfirmCap
    /\ chans' = [chans EXCEPT !["confirm"] = Append(@,
           Msg("confirm", t, task[t].nEmit, <<>>, FALSE, <<>>, task[t].responseChan))]
    /\ Upd(t, [task[t] EXCEPT !.pc = "confWait", !.sent = Append(@, "confirm")])
    /\ UNCHANGED <<harness, Conversation, TokenUsage, started, fuel, messages, ui, stream, cfgVars,
                   responseChans, waiters, inbox, handled>>

\* tui.go 612-614: the reply arrives
confirmationReply(t) ==
    /\ ~ui.quitting
    /\ task[t].pc = "confWait"
    /\ responseChans[task[t].responseChan] # <<>>
    /\ responseChans' = [responseChans EXCEPT ![task[t].responseChan] = Tail(@)]
    /\ Upd(t, AfterConfirm(task[t], t,
           IF Head(responseChans[task[t].responseChan]) THEN "yes" ELSE "no"))
    /\ UNCHANGED <<harness, Conversation, TokenUsage, started, fuel, messages, ui, stream, cfgVars,
                   chans, waiters, inbox, handled>>

\* the confirmation wait without its ctx.Done case: no timeout, no cancellation
confirmationNeverTimesOut(t) ==
    /\ FALSE
    /\ UNCHANGED vars

\* tui.go 607-608 and 615-616: timeoutCtx is done, after 30 seconds or because
\* the turn is cancelled
confirmationTimeout(t) ==
    /\ ~ui.quitting
    /\ task[t].pc \in {"confSend", "confWait"}
    /\ Upd(t, AfterConfirm(task[t], t, "err"))
    /\ UNCHANGED <<harness, Conversation, TokenUsage, started, fuel, uiVars>>

\* errors.Is(err, context.Canceled), tui.go 623
IsCanceled(err) == err = "canceled"

\* tui.go 621-639: the payload of the terminal event
FinalMessages(r) ==
    IF r.err # "none"
    THEN IF IsCanceled(r.err) THEN <<>>
         ELSE <<Message("AgentMessage", <<Tok("Error", 0, 0)>>, TRUE)>>
    ELSE r.messages

\* the error branch without its return: after the terminal event with the
\* error, the goroutine goes on to the send of the response
sendStreamCompleteNoReturn(t) ==
    /\ ~ui.quitting
    /\ harness # "stub"
    /\ task[t].pc = "ret"
    /\ Len(chans["complete"]) < CompleteCap
    /\ chans' = [chans EXCEPT !["complete"] = Append(@,
           Msg("complete", t, 0, <<>>, FALSE, FinalMessages(task[t]), 0))]
    /\ Upd(t, IF task[t].err # "none"
              THEN [task[t] EXCEPT !.err = "none", !.sent = Append(@, "complete")]
              ELSE [task[t] EXCEPT !.pc = "done", !.ctxDone = TRUE,
                                   !.sent = Append(@, "complete")])
    /\ UNCHANGED <<harness, Conversation, TokenUsage, started, fuel, messages, ui, stream, cfgVars,
                   responseChans, waiters, inbox, handled>>

\* tui.go 621-640: ProcessMessage has returned; the terminal event is sent and
\* the deferred cancel runs
sendStreamComplete(t) ==
    /\ ~ui.quitting
    /\ harness # "stub"
    /\ task[t].pc = "ret"
    /\ Len(chans["complete"]) < CompleteCap
    /\ chans' = [chans EXCEPT !["complete"] = Append(@,
           Msg("complete", t, 0, <<>>, FALSE, FinalMessages(task[t]), 0))]
    /\ Upd(t, [task[t] EXCEPT !.pc = "done", !.ctxDone = TRUE,
                              !.sent = Append(@, "complete")])
    /\ UNCHANGED <<harness, Conversation, TokenUsage, started, fuel, messages, ui, stream, cfgVars,
                   responseChans, waiters, inbox, handled>>

Bridge(t) ==
    \/ sendQueuedMessages(t)
    \/ confirmationCallback(t)
    \/ confirmationSend(t)
    \/ confirmationReply(t)
    \/ confirmationTimeout(t)
    \/ sendStreamComplete(t)

\* tui.go 199-237: Update dispatches on the message
Update(e) ==
    \/ handleStreamStart(e)
    \/ handleToolMessage(e)
    \/ handleThoughtMessage(e)
    \/ handleStreamChunk(e)
    \/ handleStreamComplete(e)
    \/ handleToolConfirmationRequest(e)

\* tui.go 279-320: the keys
handleKeyPress ==
    \/ handleUserInput
    \/ handleKeyEsc
    \/ toggleModelSelection
    \/ \E key \in {"esc", "up", "down", "enter"} : handleModelSelectionKey(key)
    \/ \E key \in Keys : handleToolConfirmationKey(key)

Init ==
    /\ harness = "tui"
    /\ Conversation = <<>>
    /\ TokenUsage = [InputTokens |-> 0, OutputTokens |-> 0, TotalTokens |-> 0]
    /\ task = [t \in Tasks |-> InitTask]
    /\ started = 0
    /\ fuel = TuiInputs
    /\ \E file \in {NoFile, MarshalIndent(UserPreferences(0, FALSE, FALSE))} :
           InitialModel(file)

Next ==
    \/ handleKeyPress
    \/ \E e \in inbox : Update(e)
    \/ \E k \in Kinds : waitFor(k)
    \/ \E t \in Tasks : Engine(t)
    \/ \E t \in Tasks : Bridge(t)

Spec == Init /\ [][Next]_vars

\* the steps that need no key: the runtime delivering and Update handling the
\* messages, the waitFor... commands, the goroutines of the turns with their
\* timers and the model's streams, which end
System ==
    \/ \E e \in inbox : Update(e)
    \/ \E k \in Kinds : waitFor(k)
    \/ \E t \in Tasks : Engine(t)
    \/ \E t \in Tasks : Bridge(t)

\* the program with goroutines that are scheduled, timers that fire and
\* streams that end: a step that needs no key is not put off forever
SpecLive == Init /\ [][Next]_vars /\ WF_vars(System)

(***************************************************************************)
(* The TUI with a model that answers with text and thoughts: no function   *)
(* call, so no tool and no confirmation, and the model list stays closed.  *)
(* The steps are those of Spec for such turns, over more inputs.           *)
(***************************************************************************)
InitText ==
    /\ harness = "text"
    /\ Conversation = <<>>
    /\ TokenUsage = [InputTokens |-> 0, OutputTokens |-> 0, TotalTokens |-> 0]
    /\ task = [t \in Tasks |-> InitTask]
    /\ started = 0
    /\ fuel = TextInputs
    /\ InitialModel(MarshalIndent(UserPreferences(0, FALSE, FALSE)))

NextText ==
    \/ handleUserInput
    \/ handleKeyEsc
    \/ \E e \in inbox :
           \/ handleStreamStart(e)
           \/ handleThoughtMessage(e)
           \/ handleStreamChunk(e)
           \/ handleStreamComplete(e)
    \/ \E k \in Kinds : waitFor(k)
    \/ \E t \in Tasks :
           \/ PMEntry(t)
           \/ LoopTop(t)
           \/ \E p \in {TextPart, ThoughtPart} : StreamChunk(t, "", p)
           \/ StreamEnd(t)
           \/ EndRound(t)
           \/ sendQueuedMessages(t)
           \/ sendStreamComplete(t)

SpecText == InitText /\ [][NextText]_vars

(***************************************************************************)
(* The TUI with the keys that toggle: F3, F4 and Ctrl+T, and Ctrl+C, after  *)
(* which the program has quit.  The preferences file found at startup is   *)
(* none, or one an earlier run has written: by selectModel, or by F4.      *)
(***************************************************************************)
StartFiles ==
    {NoFile, MarshalIndent(UserPreferences(0, FALSE, FALSE)),
     MarshalIndent(UserPreferences(NoModel, TRUE, TRUE))}

InitKeys ==
    /\ harness = "keys"
    /\ Conversation = <<>>
    /\ TokenUsage = [InputTokens |-> 0, OutputTokens |-> 0, TotalTokens |-> 0]
    /\ task = [t \in Tasks |-> InitTask]
    /\ started = 0
    /\ fuel = KeyInputs
    /\ \E file \in StartFiles : InitialModel(file)

NextKeys ==
    \/ handleKeyPress
    \/ toggleToolConfirmation
    \/ toggleThinkingMode
    \/ toggleCollapsedMessages
    \/ handleKeyCtrlC
    \/ \E e \in inbox : Update(e)
    \/ \E k \in Kinds : waitFor(k)
    \/ \E t \in Tasks : Engine(t)
    \/ \E t \in Tasks : Bridge(t)

SpecKeys == InitKeys /\ [][NextKeys]_vars

(***************************************************************************)
(* The stub harness: ProcessMessage called directly, one call after the    *)
(* other, with callbacks that return at once and a gate that answers.      *)
(***************************************************************************)
CallProcessMessage(t) ==
    /\ ~ui.quitting
    /\ harness = "stub"
    /\ t = started + 1
    /\ IF t = 1 THEN TRUE ELSE task[t - 1].pc = "ret"
    /\ fuel > 0
    /\ fuel' = fuel - 1
    /\ started' = t
    /\ Upd(t, [InitTask EXCEPT !.pc = "entry", !.gate = "set"])
    /\ UNCHANGED <<harness, Conversation, TokenUsage, uiVars>>

\* ToolConfirmationCallback, agent.go 41-43: (bool, error)
StubConfirm(t, ans) ==
    /\ ~ui.quitting
    /\ harness = "stub"
    /\ task[t].pc = "confirm"
    /\ Upd(t, AfterConfirm(task[t], t, ans))
    /\ UNCHANGED <<harness, Conversation, TokenUsage, started, fuel, uiVars>>

\* no call of ProcessMessage is under way
BetweenCalls == \A t \in Tasks : task[t].pc \in {"idle", "ret"}

\* Agent.ResetTokenUsage, agent.go 477-480
ResetTokenUsage ==
    /\ ~ui.quitting
    /\ harness = "stub"
    /\ BetweenCalls
    /\ fuel > 0
    /\ fuel' = fuel - 1
    /\ TokenUsage' = [InputTokens |-> 0, OutputTokens |-> 0, TotalTokens |-> 0]
    /\ UNCHANGED <<harness, Conversation, task, started, uiVars>>

\* Agent.ClearConversation, agent.go 482-486
ClearConversation ==
    /\ ~ui.quitting
    /\ harness = "stub"
    /\ BetweenCalls
    /\ fuel > 0
    /\ fuel' = fuel - 1
    /\ Conversation' = <<>>
    /\ TokenUsage' = [InputTokens |-> 0, OutputTokens |-> 0, TotalTokens |-> 0]
    /\ UNCHANGED <<harness, task, started, uiVars>>

InitEngine ==
    /\ harness = "stub"
    /\ Conversation = <<>>
    /\ TokenUsage = [InputTokens |-> 0, OutputTokens |-> 0, TotalTokens |-> 0]
    /\ task = [t \in Tasks |-> InitTask]
    /\ started = 0
    /\ fuel = EngineInputs
    /\ InitialModel(NoFile)

NextEngine ==
    \/ ResetTokenUsage
    \/ ClearConversation
    \/ \E t \in Tasks :
           \/ CallProcessMessage(t)
           \/ \E ans \in {"yes", "no", "err"} : StubConfirm(t, ans)
           \/ Engine(t)

SpecEngine == InitEngine /\ [][NextEngine]_vars

(***************************************************************************)
(* Properties of the engine.                                               *)
(***************************************************************************)
\* the function calls of the response streamed so far in the round of r
CallsOf(r) == {i \in DOMAIN r.accumulatedParts : r.accumulatedParts[i].k = "call"}
SameCall(p, q) == p.name = q.name /\ p.args = q.args
\* the tool results recorded in the round for the call p
ResultsFor(r, p) ==
    {i \in DOMAIN r.toolResults :
        r.toolResults[i].Name = p.name /\ r.toolResults[i].args = p.args}
\* the calls of the tool function made in the round for the call p
InvocationsFor(r, p) ==
    {i \in DOMAIN r.invoked : r.invoked[i].rnd = r.rnd /\ SameCall(r.invoked[i], p)}
\* the gate denied the call p in the round
DeniedInRound(r, p) ==
    \E i \in DOMAIN r.gateLog :
        r.gateLog[i].rnd = r.rnd /\ r.gateLog[i].ans = "no" /\ SameCall(r.gateLog[i], p)

\* C1: when the streamed response of a round has ended, every function call
\* (same name, same arguments) that appeared in several fragments has exactly
\* one tool result recorded, and the tool function ran exactly once for it
\* (a registered tool that the gate did not deny).
C1_RepeatedCallOnce ==
    \A t \in Tasks :
        task[t].pc = "end" =>
            \A i, j \in CallsOf(task[t]) :
                LET r == task[t]
                    p == r.accumulatedParts[i]
                IN (i # j /\ SameCall(p, r.accumulatedParts[j])) =>
                      /\ Cardinality(ResultsFor(r, p)) = 1
                      /\ (p.name \in ToolNames /\ ~DeniedInRound(r, p)) =>
                             Cardinality(InvocationsFor(r, p)) = 1

\* the tool-result block of round rnd of turn t, when the conversation has it
ToolBlocks(t, rnd) ==
    {i \in DOMAIN Conversation :
        /\ Conversation[i].t = t /\ Conversation[i].rnd = rnd
        /\ Conversation[i].Role = "user" /\ rnd > 0}
ModelBlocks(t, rnd) ==
    {i \in DOMAIN Conversation :
        /\ Conversation[i].t = t /\ Conversation[i].rnd = rnd
        /\ Conversation[i].Role = "model"}
IsDenialOf(res, g) ==
    /\ res.Name = g.name /\ res.args = g.args
    /\ res.Response = [key |-> "error", val |-> "User denied tool execution"]

\* C2: a call the gate answered false for is never passed to the tool function
\* in that round, and when the round's response has been appended to the
\* conversation, the block appended next is the round's tool-result block,
\* holding a denial entry for that call.
C2_DenialCorrect ==
    \A t \in Tasks : \A gi \in DOMAIN task[t].gateLog :
        LET g == task[t].gateLog[gi] IN
        g.ans = "no" =>
            /\ \A i \in DOMAIN task[t].invoked :
                   ~(task[t].invoked[i].rnd = g.rnd /\ SameCall(task[t].invoked[i], g))
            /\ \A b \in ModelBlocks(t, g.rnd) :
                   /\ b + 1 \in ToolBlocks(t, g.rnd)
                   /\ \E k \in DOMAIN Conversation[b + 1].Parts :
                          IsDenialOf(Conversation[b + 1].Parts[k], g)

\* a denied call whose round has ended with the blocks appended
C2_Witness ==
    \E t \in Tasks : \E gi \in DOMAIN task[t].gateLog :
        /\ task[t].gateLog[gi].ans = "no"
        /\ ModelBlocks(t, task[t].gateLog[gi].rnd) # {}

(***************************************************************************)
(* Properties of the TUI and of the bridge between it and the engine.      *)
(***************************************************************************)
\* the last answer of the gate in turn t
LastGate(t) == task[t].gateLog[Len(task[t].gateLog)]
\* the confirmation wait of turn t ended with no reply sent and the cancel
\* token not signalled: the 30 seconds elapsed
TimedOut(t) ==
    /\ task[t].gateLog # <<>>
    /\ LastGate(t).ans = "err" /\ ~LastGate(t).ctxDone
    /\ LastGate(t).rnd = task[t].rnd
    /\ responseChans[task[t].responseChan] = <<>>

\* C3: when the confirmation wait times out with no reply, the call is treated
\* as denied: the tool function does not run, a denial result is recorded for
\* the round, and ProcessMessage goes on instead of returning an error.
C3_TimeoutDenies ==
    \A t \in Tasks :
        TimedOut(t) =>
            /\ InvocationsFor(task[t], LastGate(t)) = {}
            /\ task[t].err # "confirm"
            /\ \E k \in DOMAIN task[t].toolResults :
                   IsDenialOf(task[t].toolResults[k], LastGate(t))

\* the events of the kinds the transcript shows
Shown == {"chunk", "tool", "thought"}
\* C4: every tool or thought entry of a turn is placed before the agent entry
\* holding text of that turn that was streamed after the tool or thought event.
C4_ToolBeforeLaterText ==
    \A i, j \in DOMAIN messages :
        (/\ messages[i].mType \in {"toolMessage", "thoughtMessage"}
         /\ messages[j].mType = "agentMessage"
         /\ \E k \in DOMAIN messages[j].content :
                /\ messages[j].content[k].tag = "text"
                /\ messages[j].content[k].t = messages[i].content[1].t
                /\ messages[j].content[k].n > messages[i].content[1].n)
        => i < j

\* C5: Update handles the text, tool and thought events of one turn in the
\* order the engine emitted them.
C5_HandledInOrder ==
    \A i, j \in DOMAIN handled :
        (/\ i < j
         /\ handled[i].k \in Shown /\ handled[j].k \in Shown
         /\ handled[i].turn = handled[j].turn)
        => handled[i].n < handled[j].n

\* C6: once Update has handled the Complete event of a turn it handles no
\* text, tool or thought event of that turn.
C6_CompleteIsLast ==
    \A i, j \in DOMAIN handled :
        (/\ i < j
         /\ handled[i].k = "complete"
         /\ handled[i].turn = handled[j].turn)
        => handled[j].k \notin Shown

\* the turn is over for the UI: Complete handled, the goroutine has returned
\* and no event of the turn is left in a channel or waiting for Update
Settled(t) ==
    /\ task[t].pc = "done"
    /\ \E i \in DOMAIN handled : handled[i].k = "complete" /\ handled[i].turn = t
    /\ \A e \in inbox : e.turn # t
    /\ \A k \in Kinds : \A i \in DOMAIN chans[k] : chans[k][i].turn # t
\* the agent entries holding streamed text of turn t
TextEntries(t) ==
    {i \in DOMAIN messages :
        /\ messages[i].mType = "agentMessage"
        /\ \E k \in DOMAIN messages[i].content :
               messages[i].content[k].tag = "text" /\ messages[i].content[k].t = t}
IsText(tok) == tok.tag = "text"

\* C7: when a turn is settled, its streamed text stands in at most one agent
\* entry, which holds the text of no other turn and holds the fragments in the
\* order of emission.
C7_OneAgentEntry ==
    \A t \in Tasks :
        Settled(t) =>
            /\ Cardinality(TextEntries(t)) <= 1
            /\ \A i \in TextEntries(t) :
                   LET txt == SelectSeq(messages[i].content, IsText) IN
                   /\ \A k \in DOMAIN txt : txt[k].t = t
                   /\ \A k, l \in DOMAIN txt : k < l => txt[k].n < txt[l].n

\* the positions of the terminal event among the events task t has sent
Terminals(t) == {i \in DOMAIN task[t].sent : task[t].sent[i] = "complete"}

\* C8: a task sends at most one terminal event and nothing after it; a task
\* whose goroutine has returned has sent exactly one, whatever ProcessMessage
\* returned; and a task about to send it finds room in the channel or a
\* waitForStreamComplete command pending that will make room.
C8_OneTerminalEvent ==
    \A t \in Tasks :
        /\ Cardinality(Terminals(t)) <= 1
        /\ \A i \in Terminals(t) : i = Len(task[t].sent)
        /\ task[t].pc = "done" <=> Terminals(t) # {}
        /\ (task[t].pc = "ret" /\ Len(chans["complete"]) >= CompleteCap) =>
               waiters["complete"] > 0

\* a cancelled turn that has sent its terminal event after a stream error
C8_Witness ==
    \E t \in Tasks :
        /\ task[t].pc = "done" /\ task[t].err = "canceled"
        /\ Len(task[t].sent) > 1

\* C9: a text, tool or thought callback never waits: its event goes into the
\* channel at once.
C9_CallbackNeverBlocks ==
    \A t \in Tasks :
        (task[t].pc = "send" /\ ~task[t].ctxDone) =>
            LET e == Head(task[t].messageQueue) IN Len(chans[e.k]) < Cap(e.k)

\* ProcessMessage of turn t has returned because the cancel token was signalled
ReturnedCancelled(t) ==
    /\ task[t].pc = "ret"
    /\ \/ task[t].err = "canceled"
       \/ task[t].err = "confirm" /\ LastGate(t).ctxDone

\* C10: the terminal event of a cancelled turn carries no error message.
C10_CancelIsSilent ==
    \A t \in Tasks :
        ReturnedCancelled(t) => FinalErrors(FinalMessages(task[t])) = <<>>

\* the task of turn t is inside ProcessMessage
InProcessMessage(t) ==
    task[t].pc \in {"entry", "loop", "recv", "end", "confirm", "exec", "send",
                    "confSend", "confWait"}

\* C11: at most one task is inside ProcessMessage at any time.
C11_OneTaskInProcessMessage ==
    Cardinality({t \in Tasks : InProcessMessage(t)}) <= 1

\* a turn has been submitted whose terminal event Update has not handled yet
TurnInProgress ==
    \E t \in 1..started :
        ~\E i \in DOMAIN handled : handled[i].k = "complete" /\ handled[i].turn = t

\* C12: the model list is opened only while no turn is in progress, and the
\* Agent's model is not changed while a turn is in progress.
C12_ModelSelectOnlyFromIdle ==
    [][/\ (ui'.modelSelectionMode /\ ~ui.modelSelectionMode) => ~TurnInProgress
       /\ config'.agentModel # config.agentModel => ~TurnInProgress]_vars

\* C13: the model-selection flag and the tool-confirmation flag are never both
\* true, so that exactly one of Idle, AwaitingResponse, ModelSelect and
\* ToolConfirm is active.
C13_OneUIState ==
    ~(ui.modelSelectionMode /\ ui.toolConfirmationMode)

\* Update handles the terminal event of the latest turn in this step
HandlesLastComplete ==
    /\ Len(handled') = Len(handled) + 1
    /\ handled'[Len(handled')].k = "complete"
    /\ handled'[Len(handled')].turn = started

\* C14: once Update has handled the terminal event of the latest turn (the model
\* list not being open), the UI is in Idle: the spinner is off, the textarea is
\* focused and Enter submits, and no tool-confirmation overlay is active.
C14_IdleAfterComplete ==
    [][(HandlesLastComplete /\ ~ui.modelSelectionMode) =>
           /\ ~ui'.showSpinner
           /\ ui'.focused
           /\ ~ui'.modelSelectionMode
           /\ ~ui'.toolConfirmationMode]_vars

\* C16: handling a terminal event a second time leaves the transcript as the
\* first handling made it.
C16_CompleteIdempotent ==
    \A e \in inbox :
        e.k = "complete" =>
            FinalizeTranscript(FinalizeTranscript(messages, e.final), e.final)
                = FinalizeTranscript(messages, e.final)

(***************************************************************************)
(* Further properties of the engine.                                       *)
(***************************************************************************)
NoTokens == [InputTokens |-> 0, OutputTokens |-> 0, TotalTokens |-> 0]

CallPartsOf(c) == {k \in DOMAIN c.Parts : c.Parts[k].k = "call"}

\* C17: a model block with function-call parts is followed by the tool-result
\* block of its round, which holds a function response for each of the calls
\* and as many function responses as the model block has function-call parts.
C17_ResponsePerCall ==
    \A b \in DOMAIN Conversation :
        (Conversation[b].Role = "model" /\ CallPartsOf(Conversation[b]) # {}) =>
            /\ b + 1 \in ToolBlocks(Conversation[b].t, Conversation[b].rnd)
            /\ \A k \in CallPartsOf(Conversation[b]) :
                   \E j \in DOMAIN Conversation[b + 1].Parts :
                       /\ Conversation[b + 1].Parts[j].Name = Conversation[b].Parts[k].name
                       /\ Conversation[b + 1].Parts[j].args = Conversation[b].Parts[k].args
            /\ Len(Conversation[b + 1].Parts) = Cardinality(CallPartsOf(Conversation[b]))

Last(q) == q[Len(q)]

\* C18: the step that executes a tool never ends ProcessMessage: it records one
\* tool result and one Tool message, error-flagged exactly when the result is
\* the text of an error, as it is for an unknown tool; and a round that has
\* tool results goes on to the next model call.
C18_ToolFailureRecovered ==
    [][\A t \in Tasks :
          /\ (task[t].pc = "exec" /\ task'[t].pc # "exec") =>
                /\ task'[t].err = "none"
                /\ task'[t].pc \in {"recv", "send"}
                /\ Len(task'[t].toolResults) = Len(task[t].toolResults) + 1
                /\ Last(task'[t].toolResults).Name = task[t].call.name
                /\ Len(task'[t].messages) = Len(task[t].messages) + 1
                /\ Last(task'[t].messages).Type = "ToolMessage"
                /\ Last(task'[t].messages).IsError
                       <=> (Last(task'[t].toolResults).Response.val = "Error")
                /\ task[t].call.name \notin ToolNames => Last(task'[t].messages).IsError
          /\ (task[t].pc = "end" /\ task'[t].pc # "end" /\ task[t].toolResults # <<>>) =>
                (task'[t].pc = "loop" /\ task'[t].err = "none")]_vars

\* a round with a failed tool has been followed by another model call
C18_Witness ==
    \E t \in Tasks : \E b \in DOMAIN Conversation :
        /\ Conversation[b].t = t /\ Conversation[b].Role = "user" /\ Conversation[b].rnd > 0
        /\ \E j \in DOMAIN Conversation[b].Parts :
               Conversation[b].Parts[j].Response.val = "Error"
        /\ task[t].rnd > Conversation[b].rnd
        /\ task[t].pc = "recv"

\* C19: thought parts stay out of the accumulated answer text and out of the
\* blocks ProcessMessage appends to the conversation.
C19_ThoughtsNotSentBack ==
    /\ \A t \in Tasks : \A k \in DOMAIN task[t].accumulatedText :
           task[t].accumulatedText[k].tag = "text"
    /\ \A b \in DOMAIN Conversation :
           Conversation[b].Role = "model" =>
               \A k \in DOMAIN Conversation[b].Parts : Conversation[b].Parts[k].k # "thought"

\* C20: a turn in which the stream yielded a response with zero candidates does
\* not complete normally: ProcessMessage returns an error.
C20_ZeroCandidatesIsError ==
    \A t \in Tasks :
        (task[t].zeroCand > 0 /\ task[t].pc = "ret") => task[t].err # "none"

(***************************************************************************)
(* Stop reasons, transport errors and the end of a round.                  *)
(***************************************************************************)
\* the messages agent.go 256-266 makes for a non-normal stop reason
IsStopNotice(m) ==
    /\ m.Type = "AgentMessage" /\ m.IsError
    /\ m.Content[1].tag \in {"[Response truncated due to length limit]",
                             "[Response blocked by safety filters]"}
\* Update has handled the terminal event of turn t
CompleteHandled(t) ==
    \E i \in DOMAIN handled : handled[i].k = "complete" /\ handled[i].turn = t
\* how many stop-reason messages the turns hold whose terminal event is handled
RECURSIVE NoticesDue(_)
NoticesDue(t) ==
    IF t = 0 THEN 0
    ELSE NoticesDue(t - 1)
            + (IF CompleteHandled(t)
               THEN Len(SelectSeq(task[t].messages, IsStopNotice)) ELSE 0)
\* the transcript entries showing a stop reason
NoticesShown ==
    {i \in DOMAIN messages :
        /\ messages[i].mType = "agentMessage" /\ messages[i].isError
        /\ messages[i].content[1].tag \in {"[Response truncated due to length limit]",
                                           "[Response blocked by safety filters]"}}

\* C21: the error-flagged Agent message made for a fragment with a non-normal
\* stop reason stands in the transcript once Update has handled the terminal
\* event of its turn, and the fragment does not end the loop: ProcessMessage
\* goes on receiving.
C21_StopReasonSurfaced ==
    /\ Cardinality(NoticesShown) >= NoticesDue(MaxTurns)
    /\ \A t \in Tasks :
           (task[t].messages # <<>> /\ IsStopNotice(Last(task[t].messages))) =>
               task[t].pc \in {"recv", "send", "end", "loop", "confirm", "exec", "confSend",
                               "confWait", "ret", "done"}

\* Update handles the terminal event of turn t in this step
HandlesCompleteOf(t) ==
    /\ Len(handled') = Len(handled) + 1
    /\ Last(handled').k = "complete" /\ Last(handled').turn = t

\* C22: a streaming error ends ProcessMessage with the conversation as it
\* stood (no block is ever removed or altered, so that the next turn appends to
\* it), the terminal event of the turn carries exactly one error-flagged Agent
\* message, and Update, handling it, adds exactly that one entry.
C22_TransportErrorKeepsConversation ==
    [][/\ Len(Conversation') >= Len(Conversation)
       /\ SubSeq(Conversation', 1, Len(Conversation)) = Conversation
       /\ \A t \in Tasks :
             /\ (task[t].pc = "recv" /\ task'[t].pc = "ret" /\ task'[t].err = "stream") =>
                   /\ Conversation' = Conversation
                   /\ Len(FinalErrors(FinalMessages(task'[t]))) = 1
             /\ (HandlesCompleteOf(t) /\ task[t].err = "stream") =>
                   /\ Len(messages') = Len(messages) + 1
                   /\ SubSeq(messages', 1, Len(messages)) = messages
                   /\ Last(messages').mType = "agentMessage" /\ Last(messages').isError]_vars

\* the first turn ended with a streaming error, shown as one error entry, and
\* the second turn has appended its user block after the first turn's
C22_Witness ==
    /\ task[1].err = "stream" /\ CompleteHandled(1)
    /\ Cardinality({i \in DOMAIN messages : messages[i].isError}) = 1
    /\ Len(Conversation) >= 2
    /\ Conversation[1].t = 1 /\ Conversation[Len(Conversation)].t = 2

\* C23: the step after the stream of a round appends one model block holding
\* the parts of the round.  If the round had a function call, it appends one
\* tool-result block holding the results of the round and goes to the top of
\* the loop, where the model is called again; otherwise ProcessMessage returns
\* without error, the accumulated text, when there is any, being the last of the
\* returned messages as an Agent message (with no text, no message is added).
C23_RoundEnd ==
    [][\A t \in Tasks :
          /\ (task[t].pc = "end" /\ task'[t].pc # "end") =>
                LET r == task[t]
                    aiContent == Content("model", r.accumulatedParts, t, r.rnd)
                IN IF CallsOf(r) # {}
                   THEN /\ r.toolResults # <<>>
                        /\ Conversation' = Conversation \o
                               <<aiContent, Content("user", r.toolResults, t, r.rnd)>>
                        /\ task'[t].pc = "loop"
                        /\ task'[t].messages = r.messages
                   ELSE /\ Conversation' = Append(Conversation, aiContent)
                        /\ task'[t].pc = "ret" /\ task'[t].err = "none"
                        /\ task'[t].messages =
                               IF r.accumulatedText # <<>>
                               THEN Append(r.messages,
                                        Message("AgentMessage", r.accumulatedText, FALSE))
                               ELSE r.messages
          /\ (task[t].pc = "loop" /\ task'[t].pc # "loop" /\ ~task[t].ctxDone) =>
                (task'[t].pc = "recv" /\ task'[t].rnd = task[t].rnd + 1)]_vars

\* a call of ProcessMessage that returned its text as the final Agent message
\* in a second round, the first round's tool results being in the conversation
C23_Witness ==
    \E t \in Tasks :
        /\ task[t].pc = "ret" /\ task[t].err = "none" /\ task[t].rnd = 2
        /\ task[t].accumulatedText # <<>>
        /\ Last(task[t].messages) = Message("AgentMessage", task[t].accumulatedText, FALSE)
        /\ ToolBlocks(t, 1) # {} /\ ModelBlocks(t, 2) # {}

(***************************************************************************)
(* The transcript of a turn with a tool call and a confirmation.           *)
(***************************************************************************)
\* the entries of the transcript that turn t made
EntriesOfTurn(t) ==
    LET OfTurn(m) == m.content # <<>> /\ m.content[1].t = t
    IN SelectSeq(messages, OfTurn)

\* turn t was: one function call, which the user approved, then text streamed
\* in the next round, and a normal return
CallThenText(t) ==
    /\ config.requireToolConfirmation
    /\ Settled(t) /\ task[t].err = "none"
    /\ task[t].sent = <<"confirm", "tool", "chunk", "complete">>
    /\ Len(task[t].gateLog) = 1 /\ task[t].gateLog[1].ans = "yes"
    /\ task[t].rnd = 2 /\ task[t].accumulatedText # <<>>

\* C24: the transcript of a turn in which the model asked for one function
\* call, approved by the user, and then streamed text is the User entry, the
\* Tool entry and the Agent entry holding the streamed text, in this order.
C24_UserToolAgent ==
    \A t \in Tasks :
        CallThenText(t) =>
            LET es == EntriesOfTurn(t) IN
            /\ Len(es) = 3
            /\ es[1].mType = "userMessage"
            /\ es[2].mType = "toolMessage"
            /\ es[3].mType = "agentMessage" /\ es[3].content = task[t].accumulatedText

\* the gate of turn t answers false in this step: the user's n has arrived
DenialArrives(t) ==
    /\ Len(task'[t].gateLog) = Len(task[t].gateLog) + 1
    /\ Last(task'[t].gateLog).ans = "no"

\* C25: when the user's denial reaches the waiting task, ProcessMessage makes
\* an error-flagged Tool message saying the call was rejected and hands it to
\* the tool callback (which queues it for the UI unless the turn is cancelled),
\* records the denial as the call's result without running the tool, and goes
\* on with the stream instead of returning; and once the task has entered a
\* later round, that is, called the model again, the conversation holds the
\* tool-result block with the denial.
C25_DenialResumes ==
    [][\A t \in Tasks :
          /\ DenialArrives(t) =>
                /\ task[t].pc = "confWait"
                /\ Len(task'[t].messages) = Len(task[t].messages) + 1
                /\ Last(task'[t].messages) =
                       Message("ToolMessage",
                               <<Tok("Tool Call Rejected", t, task[t].nEmit)>>, TRUE)
                /\ IsDenialOf(Last(task'[t].toolResults), Last(task'[t].gateLog))
                /\ task'[t].invoked = task[t].invoked
                /\ task'[t].err = "none"
                /\ IF task[t].ctxDone THEN task'[t].pc = "recv"
                   ELSE /\ task'[t].pc = "send"
                        /\ Last(task'[t].messageQueue).k = "tool"
                        /\ Last(task'[t].messageQueue).IsError
                        /\ Last(task'[t].messageQueue).Content =
                               <<Tok("Tool Call Rejected", t, task[t].nEmit)>>
          /\ \A gi \in DOMAIN task'[t].gateLog :
                LET g == task'[t].gateLog[gi] IN
                (g.ans = "no" /\ task'[t].rnd > g.rnd) =>
                    \E b \in DOMAIN Conversation' :
                        /\ Conversation'[b].t = t /\ Conversation'[b].rnd = g.rnd
                        /\ Conversation'[b].Role = "user"
                        /\ \E k \in DOMAIN Conversation'[b].Parts :
                               IsDenialOf(Conversation'[b].Parts[k], g)]_vars

\* the user denied a call, the Tool message reached the transcript, and the
\* task is receiving the stream of the next model call
C25_Witness ==
    \E t \in Tasks :
        /\ task[t].gateLog # <<>> /\ task[t].gateLog[1].ans = "no"
        /\ task[t].rnd = 2 /\ task[t].pc = "recv"
        /\ \E i \in DOMAIN messages :
               /\ messages[i].mType = "toolMessage" /\ messages[i].isError
               /\ messages[i].content[1].tag = "Tool Call Rejected"

(***************************************************************************)
(* The order of the function responses.                                    *)
(***************************************************************************)
\* the positions, among the parts of a model response, of the calls a function
\* response answers
CallPositions(parts, res) ==
    {k \in DOMAIN parts :
        parts[k].k = "call" /\ parts[k].name = res.Name /\ parts[k].args = res.args}
Min(S) == CHOOSE x \in S : \A y \in S : x <= y
\* the function responses stand in the order of the calls they answer
InCallOrder(parts, results) ==
    /\ \A i \in DOMAIN results : CallPositions(parts, results[i]) # {}
    /\ \A i, j \in DOMAIN results :
           i < j => Min(CallPositions(parts, results[i]))
                        < Min(CallPositions(parts, results[j]))

\* C26: the function responses collected in a round, and those of every
\* tool-result block of the conversation, stand in the order in which the
\* calls they answer appear in the model response of the round, whether the
\* call was approved, denied or failed.
C26_ResponsesInCallOrder ==
    /\ \A t \in Tasks : InCallOrder(task[t].accumulatedParts, task[t].toolResults)
    /\ \A b \in DOMAIN Conversation :
           (Conversation[b].Role = "user" /\ Conversation[b].rnd > 0) =>
               /\ b - 1 \in ModelBlocks(Conversation[b].t, Conversation[b].rnd)
               /\ InCallOrder(Conversation[b - 1].Parts, Conversation[b].Parts)

\* a tool-result block answering two calls, one of them denied and one failed
C26_Witness ==
    \E b \in DOMAIN Conversation :
        /\ Conversation[b].Role = "user" /\ Conversation[b].rnd > 0
        /\ Len(Conversation[b].Parts) = 2
        /\ Conversation[b].Parts[1].Response.val = "Error"
        /\ Conversation[b].Parts[2].Response.key = "error"

(***************************************************************************)
(* Every turn ends.                                                        *)
(***************************************************************************)
\* C27: every turn the user has submitted ends, whatever the user does or
\* fails to do afterwards: its goroutine returns, having sent the terminal
\* event, Update handles the event, and the spinner is off.
C27_TurnEnds ==
    \A t \in Tasks :
        (started >= t) ~> (task[t].pc = "done" /\ CompleteHandled(t) /\ ~ui.showSpinner)

\* a turn ended by the timeout of a confirmation the user never answered
C27_Witness ==
    \E t \in Tasks :
        /\ task[t].pc = "done" /\ CompleteHandled(t) /\ ~ui.showSpinner
        /\ task[t].err = "confirm" /\ ~LastGate(t).ctxDone
        /\ \A c \in DOMAIN responseChans : responseChans[c] = <<>>
        /\ ui.toolConfirmationMode

(***************************************************************************)
(* Answering a confirmation.                                               *)
(***************************************************************************)
\* the answers Update has sent on reply channel c
AnswersOn(c) == {i \in DOMAIN handled : handled[i].k = "answer" /\ handled[i].n = c}

\* C28: Update never blocks on the send of an answer: whenever the overlay is
\* up, the reply channel it would send on has room; and every reply channel,
\* made by one request, gets at most one answer and never holds more than its
\* capacity, whether or not the request is still waited for.
C28_AnswerNeverBlocks ==
    /\ ui.toolConfirmationMode =>
           Len(responseChans[stream.confirmationResponseChan]) < ResponseCap
    /\ \A c \in DOMAIN responseChans :
           /\ Len(responseChans[c]) <= ResponseCap
           /\ Cardinality(AnswersOn(c)) <= 1

\* an answer was sent for a request whose wait had ended by timeout or
\* cancellation: it stays in the reply channel, read by no one
C28_Witness ==
    \E i \in DOMAIN handled :
        /\ handled[i].k = "answer"
        /\ task[handled[i].turn].pc = "done" /\ task[handled[i].turn].err = "confirm"
        /\ task[handled[i].turn].responseChan = handled[i].n
        /\ responseChans[handled[i].n] # <<>>

(***************************************************************************)
(* A token count that fails.                                               *)
(***************************************************************************)
\* C29: the two steps that count tokens do to the task and to the conversation
\* what they do when the count succeeds, whether it succeeds or not: the top of
\* the loop goes on to the stream of the next round, the end of a round appends
\* its blocks and loops or returns without error; and a count that fails leaves
\* TokenUsage as it was, while one that succeeds adds the count.
C29_CountFailureSkipped ==
    [][\A t \in Tasks :
          /\ (task[t].pc = "loop" /\ task'[t].pc # "loop" /\ ~task[t].ctxDone) =>
                /\ task'[t] = [task[t] EXCEPT !.pc = "recv", !.rnd = @ + 1,
                                              !.accumulatedText = <<>>,
                                              !.accumulatedParts = <<>>,
                                              !.toolResults = <<>>,
                                              !.processedToolCalls = {}]
                /\ Conversation' = Conversation
                /\ TokenUsage' = IF fuel' < fuel THEN TokenUsage
                                 ELSE AddInputTokens(Len(Conversation))
          /\ (task[t].pc = "end" /\ task'[t].pc # "end") =>
                /\ task'[t].err = "none"
                /\ task'[t].pc = IF task[t].toolResults # <<>> THEN "loop" ELSE "ret"
                /\ Len(Conversation') =
                       Len(Conversation) + (IF task[t].toolResults # <<>> THEN 2 ELSE 1)
                /\ TokenUsage' = IF fuel' < fuel THEN TokenUsage
                                 ELSE AddOutputTokens(1)]_vars

\* a call of ProcessMessage that returned normally although its input count
\* failed: output tokens are recorded, input tokens are not
C29_Witness ==
    \E t \in Tasks :
        /\ task[t].pc = "ret" /\ task[t].err = "none"
        /\ TokenUsage.InputTokens = 0 /\ TokenUsage.OutputTokens > 0

(***************************************************************************)
(* The content of the streaming entry.                                     *)
(***************************************************************************)
\* what the claim makes of the events Update has handled, from the i-th on:
\* content is the text of the entry in progress (empty: no entry), pending
\* says that a tool or thought event came after the entry's last chunk
RECURSIVE ChunksWithSeparators(_, _, _)
ChunksWithSeparators(i, content, pending) ==
    IF i > Len(handled) THEN content
    ELSE LET e == handled[i] IN
         CASE e.k = "chunk" ->
                 ChunksWithSeparators(i + 1,
                     content \o (IF pending THEN <<Separator>> ELSE <<>>)
                             \o <<Tok("text", e.turn, e.n)>>,
                     FALSE)
           [] e.k \in {"tool", "thought"} ->
                 ChunksWithSeparators(i + 1, content, pending \/ content # <<>>)
           [] e.k = "complete" -> ChunksWithSeparators(i + 1, <<>>, FALSE)
           [] OTHER -> ChunksWithSeparators(i + 1, content, pending)

\* C30: the content of the Agent entry in progress is the text chunks handled
\* since the entry was made, in the order of handling, with one separator
\* before a chunk exactly when a tool or thought event was handled since the
\* chunk before it, the entry not being empty then.
C30_ChunksConcatenated ==
    stream.streamingMsg # nil =>
        /\ stream.streamingMsg.content = ChunksWithSeparators(1, <<>>, FALSE)
        /\ messages[stream.streamingMsgIndex + 1].content = stream.streamingMsg.content

(***************************************************************************)
(* The streaming entry and its index.                                      *)
(***************************************************************************)
\* C31: when Update has handled the terminal event of a turn, no entry of the
\* transcript is marked as still streaming.
C31_NoEntryStreamingAfterComplete ==
    [][(\E t \in Tasks : HandlesCompleteOf(t)) =>
           \A i \in DOMAIN messages' : ~messages'[i].isStreaming]_vars

\* the error-flagged Agent messages of a payload, in payload order
ErrorAgentsOf(final) ==
    LET IsErrorAgent(m) == m.Type = "AgentMessage" /\ m.IsError
    IN SelectSeq(final, IsErrorAgent)

\* C32: the step in which Update handles a terminal event appends to the
\* transcript one error-flagged agent entry for each error-flagged Agent
\* message of the payload, with its content and in payload order, and leaves
\* the entries the transcript had as they were; nothing is added for the
\* StreamChunk, Tool, Thought and non-error Agent messages of the payload.
C32_CompleteAddsErrorsOnly ==
    [][\A e \in inbox :
          (e.k = "complete" /\ e \notin inbox' /\ HandlesCompleteOf(e.turn)) =>
              LET errs == ErrorAgentsOf(e.final) IN
              /\ Len(messages') = Len(messages) + Len(errs)
              /\ SubSeq(messages', 1, Len(messages)) = messages
              /\ \A k \in DOMAIN errs :
                     /\ messages'[Len(messages) + k].mType = "agentMessage"
                     /\ messages'[Len(messages) + k].content = errs[k].Content
                     /\ messages'[Len(messages) + k].isError]_vars

\* a handled terminal event whose payload held a text chunk, the final Agent
\* message and a stop-reason error: the transcript shows the one error
C32_Witness ==
    \E t \in Tasks :
        /\ CompleteHandled(t) /\ task[t].err = "none"
        /\ \E i, j, k \in DOMAIN task[t].messages :
               /\ task[t].messages[i].Type = "StreamChunk"
               /\ IsStopNotice(task[t].messages[j])
               /\ task[t].messages[k].Type = "AgentMessage" /\ ~task[t].messages[k].IsError
        /\ Cardinality(NoticesShown) = 1
        /\ Cardinality({i \in DOMAIN messages : messages[i].mType = "agentMessage"}) = 2

\* C33: streamingMsgIndex is -1 exactly when streamingMsg is nil; otherwise it
\* is an index of the transcript, and the entry there is the agent entry of the
\* streaming message, with its content.
C33_IndexTracksStreamingEntry ==
    /\ stream.streamingMsgIndex = -1 <=> stream.streamingMsg = nil
    /\ stream.streamingMsg # nil =>
           /\ 0 <= stream.streamingMsgIndex /\ stream.streamingMsgIndex < Len(messages)
           /\ messages[stream.streamingMsgIndex + 1] = stream.streamingMsg
           /\ stream.streamingMsg.mType = "agentMessage"

\* a streaming entry with a Tool entry inserted before it while it had text
C33_Witness ==
    /\ stream.streamingMsg # nil
    /\ stream.streamingWasInterrupted
    /\ stream.streamingMsgIndex > 0
    /\ messages[stream.streamingMsgIndex].mType = "toolMessage"

\* the UI is not busy: the spinner is off and Enter would submit what is typed
\* into the focused input
NotBusy ==
    /\ ~ui.showSpinner /\ ui.focused
    /\ ~ui.toolConfirmationMode /\ ~ui.modelSelectionMode

\* the goroutine of turn t is started and has not ended
TaskRunning(t) == task[t].pc \notin {"idle", "done"}

\* C34: whenever the UI is not busy no goroutine of a turn is running, and the
\* spinner is switched off only by the step that handles the terminal event of
\* the running turn (the turn of the current cancelFunc).
C34_NotBusyMeansNoTask ==
    [][/\ NotBusy' => \A t \in Tasks : ~TaskRunning(t)'
       /\ (ui.showSpinner /\ ~ui'.showSpinner) => HandlesCompleteOf(stream.cancelFunc)]_vars

\* how many Tool and Thought entries are expanded
Expanded(msgs) ==
    LET IsExpanded(m) == IsFoldable(m) /\ ~m.isCollapsed IN Len(SelectSeq(msgs, IsExpanded))

\* a reply is put on some reply channel
ReplySent ==
    \E c \in DOMAIN responseChans : Len(responseChans'[c]) > Len(responseChans[c])

\* Update handles a key that answers the request shown
HandlesAnswer ==
    /\ Len(handled') = Len(handled) + 1
    /\ Last(handled').k = "answer"
    /\ Last(handled').n = stream.confirmationResponseChan

C36_NoConfirmationWhenNotRequired ==
    [][~config.requireToolConfirmation =>
          /\ ~ui'.toolConfirmationMode
          /\ \A e \in inbox' : e.k # "confirm"
          /\ chans'["confirm"] = <<>>
          /\ \A t \in Tasks :
                /\ task'[t].pc \notin {"confSend", "confWait"}
                /\ \A i \in DOMAIN task'[t].sent : task'[t].sent[i] # "confirm"
                /\ \A gi \in DOMAIN task'[t].gateLog : task'[t].gateLog[gi].ans = "yes"
                /\ (task[t].pc = "confirm" /\ task'[t].pc # "confirm") =>
                      /\ task'[t].pc = "exec"
                      /\ Len(task'[t].gateLog) = Len(task[t].gateLog) + 1
                      /\ responseChans' = responseChans /\ chans' = chans
                /\ (task[t].pc = "exec" /\ task'[t].pc # "exec") =>
                      /\ Len(task'[t].toolResults) = Len(task[t].toolResults) + 1
                      /\ Last(task'[t].toolResults).Name = task[t].call.name
                      /\ Last(task'[t].toolResults).Response.key = "result"
                      /\ Len(task'[t].invoked) = Len(task[t].invoked) + 1]_vars

\* a tool was called in a session that does not ask
C36_Witness ==
    /\ ~config.requireToolConfirmation
    /\ \E t \in Tasks :
          /\ task[t].invoked # <<>>
          /\ task[t].gateLog # <<>>
          /\ Len(task[t].toolResults) > 0

\* the flags a start of the program would read from the preferences file
PersistedFlags ==
    [requireToolConfirmation |-> LoadPreferences(prefsFile).RequireToolConfirmation,
     enableThinkingMode |-> LoadPreferences(prefsFile).EnableThinkingMode]

\* the flags in memory
MemoryFlags ==
    [requireToolConfirmation |-> config.requireToolConfirmation,
     enableThinkingMode |-> config.enableThinkingMode]

\* Enter in the model list: a model is selected
SelectsModel ==
    /\ ui.modelSelectionMode /\ ~ui'.modelSelectionMode
    /\ Len(messages') = Len(messages) + 1
    /\ Last(messages').content[1].tag = "Model switched to"

\* C37: selecting a model leaves the persisted confirmation-required and
\* thinking-mode flags as they were, so that persisted flags which equal the
\* flags in memory before the selection equal them after it.
C37_SelectModelKeepsFlags ==
    [][(SelectsModel /\ PersistedFlags = MemoryFlags) =>
          /\ PersistedFlags' = PersistedFlags
          /\ PersistedFlags' = MemoryFlags']_vars

\* C38: what SavePreferences has written is what LoadPreferences returns: a
\* preferences file written with the value p loads as p, for every value p.
C38_SaveThenLoad ==
    \A p \in PrefsValues : prefsFile = SavePreferences(p, TRUE) => LoadPreferences(prefsFile) = p

\* Update handles Ctrl+T in normal mode: the entries stay, in their places
HandlesCtrlT ==
    /\ harness = "keys"
    /\ ~ui.toolConfirmationMode /\ ~ui.modelSelectionMode
    /\ UNCHANGED <<engineVars, ui, stream, cfgVars, chans, responseChans, waiters, inbox,
                   handled>>

\* C39: Ctrl+T makes the collapsed state of all Tool and Thought entries the
\* same: all collapsed if any of them was expanded, all expanded if none was;
\* every other entry, and everything but the collapsed state of the Tool and
\* Thought entries, is as before.
C39_CtrlTUnifies ==
    [][HandlesCtrlT =>
          /\ Len(messages') = Len(messages)
          /\ \A i \in DOMAIN messages :
                IF IsFoldable(messages[i])
                THEN /\ messages'[i].isCollapsed = (Expanded(messages) > 0)
                     /\ [messages'[i] EXCEPT !.isCollapsed = messages[i].isCollapsed]
                            = messages[i]
                ELSE messages'[i] = messages[i]]_vars

\* Ctrl+T has expanded the entries and one more has arrived, collapsed: some
\* Tool or Thought entry is expanded and some is not
C39_Witness ==
    /\ ~ui.toolConfirmationMode /\ ~ui.modelSelectionMode /\ ~ui.quitting
    /\ Expanded(messages) > 0
    /\ Expanded(messages) < Len(SelectSeq(messages, IsFoldable))

=============================================================================
